---- MODULE Spec2Model ----
(***************************************************************************)
(* The RSS schema of pyagg/model/rss.py: nine mapped classes, their        *)
(* foreign keys, the relations of Channel and ChannelItem and the          *)
(* association proxies over them.  The state is the content of the nine    *)
(* tables; every action is one unit of work on the mapped objects (the     *)
(* change, its flush and its commit), so that every state is a committed   *)
(* state of the storage, with the foreign keys enforced as declared.       *)
(***************************************************************************)
EXTENDS Integers, FiniteSets, Sequences, TLC

\* ------------------------------------------------------------------ bounds
MaxChannels == 2
MaxRows == 2

\* A NULL foreign key (primary keys start at 1).
NoId == 0
\* NULL / None in a scalar column.
None == "None"

\* ------------------------------------------------------------- the tables
ChannelCategory == "channel_cagegories"
ChannelCloud == "channel_clouds"
ChannelImage == "channel_iamges"
ChannelTextInput == "channel_text_inputs"
ChannelItemCategory == "channel_item_cagegories"
ChannelItem == "channel_items"
SkipHour == "skip_hours"
SkipDay == "skip_days"
Channel == "channels"

ChildTables ==
    {ChannelCategory, ChannelCloud, ChannelImage, ChannelTextInput,
     ChannelItemCategory, ChannelItem, SkipHour, SkipDay}
Tables == ChildTables \cup {Channel}
DetailTables == {ChannelCloud, ChannelImage, ChannelTextInput}

\* declarative_base(): the constructor of every mapped class takes keyword
\* arguments only; no class of the file defines an __init__ of its own.
Base == [constructor |-> "keywords"]

\* ------------------------------------------------------- the foreign keys
\* Column(Integer, ForeignKey(target.id, onupdate="CASCADE", ondelete="CASCADE")):
\* no nullable=False, so the column accepts NULL.
ChannelCategory_channel_id ==
    [target |-> Channel, ondelete |-> "CASCADE", nullable |-> TRUE]
ChannelCloud_channel_id ==
    [target |-> Channel, ondelete |-> "CASCADE", nullable |-> TRUE]
ChannelImage_channel_id ==
    [target |-> Channel, ondelete |-> "CASCADE", nullable |-> TRUE]
ChannelTextInput_channel_id ==
    [target |-> Channel, ondelete |-> "CASCADE", nullable |-> TRUE]
ChannelItemCategory_channel_item_id ==
    [target |-> ChannelItem, ondelete |-> "CASCADE", nullable |-> TRUE]
ChannelItem_channel_id ==
    [target |-> Channel, ondelete |-> "CASCADE", nullable |-> TRUE]
SkipHour_channel_id ==
    [target |-> Channel, ondelete |-> "CASCADE", nullable |-> TRUE]
SkipDay_channel_id ==
    [target |-> Channel, ondelete |-> "CASCADE", nullable |-> TRUE]

ForeignKey(t) ==
    CASE t = ChannelCategory -> ChannelCategory_channel_id
      [] t = ChannelCloud -> ChannelCloud_channel_id
      [] t = ChannelImage -> ChannelImage_channel_id
      [] t = ChannelTextInput -> ChannelTextInput_channel_id
      [] t = ChannelItemCategory -> ChannelItemCategory_channel_item_id
      [] t = ChannelItem -> ChannelItem_channel_id
      [] t = SkipHour -> SkipHour_channel_id
      [] t = SkipDay -> SkipDay_channel_id

\* ----------------------------------------------------------- the relations
\* relation(Child, collection_class=set, cascade="all, delete-orphan")
AllDeleteOrphan ==
    {"save-update", "merge", "refresh-expire", "expunge", "delete", "delete-orphan"}
\* relation(Child): the default cascade, a list collection
DefaultCascade == {"save-update", "merge"}

ChannelItem__categories ==
    [parent |-> ChannelItem, child |-> ChannelItemCategory,
     cascade |-> AllDeleteOrphan, collection_class |-> "set", uselist |-> TRUE]
Channel__categories ==
    [parent |-> Channel, child |-> ChannelCategory,
     cascade |-> AllDeleteOrphan, collection_class |-> "set", uselist |-> TRUE]
Channel_cloud ==
    [parent |-> Channel, child |-> ChannelCloud,
     cascade |-> DefaultCascade, collection_class |-> "list", uselist |-> TRUE]
Channel_image ==
    [parent |-> Channel, child |-> ChannelImage,
     cascade |-> DefaultCascade, collection_class |-> "list", uselist |-> TRUE]
Channel_textInput ==
    [parent |-> Channel, child |-> ChannelTextInput,
     cascade |-> DefaultCascade, collection_class |-> "list", uselist |-> TRUE]
\* (variant: the relation declared without a cascade)
Channel__skipHours_nocascade ==
    [parent |-> Channel, child |-> SkipHour,
     cascade |-> DefaultCascade, collection_class |-> "set", uselist |-> TRUE]
Channel__skipHours ==
    [parent |-> Channel, child |-> SkipHour,
     cascade |-> AllDeleteOrphan, collection_class |-> "set", uselist |-> TRUE]
Channel__skipDays ==
    [parent |-> Channel, child |-> SkipDay,
     cascade |-> AllDeleteOrphan, collection_class |-> "set", uselist |-> TRUE]

Relations ==
    {ChannelItem__categories, Channel__categories, Channel_cloud, Channel_image,
     Channel_textInput, Channel__skipHours, Channel__skipDays}
DetailRelations == {Channel_cloud, Channel_image, Channel_textInput}

\* association_proxy(target_collection, attr): no creator is given, so the
\* proxy builds a child with target_class(value).
ChannelItem_categories ==
    [target_collection |-> ChannelItem__categories, attr |-> "category", creator |-> "target_class"]
Channel_categories ==
    [target_collection |-> Channel__categories, attr |-> "category", creator |-> "target_class"]
Channel_skipHours ==
    [target_collection |-> Channel__skipHours, attr |-> "hour", creator |-> "target_class"]
Channel_skipDays ==
    [target_collection |-> Channel__skipDays, attr |-> "day", creator |-> "target_class"]

Proxies ==
    {ChannelItem_categories, Channel_categories, Channel_skipHours, Channel_skipDays}


\* ------------------------------------------------------- the scalar columns
\* guidIsAPermaLink = Column(Boolean): no default, no server_default, nullable
ChannelItem_guidIsAPermaLink == [type |-> "Boolean", default |-> None, nullable |-> TRUE]
\* hour = Column(Integer): no CheckConstraint
SkipHour_hour == [type |-> "Integer", check |-> "none", nullable |-> TRUE]

\* (variant: one detail record per channel enforced by a unique channel_id)
UniqueColumns_detail(t) == IF t \in DetailTables THEN {"fk"} ELSE {}

\* No Column(unique=True) and no UniqueConstraint anywhere in the file: the
\* primary key is the only unique column of every table.
UniqueColumns(t) == {}

\* The values the scalar column of each table is given in this model.
CategoryInputs == {"a", "b"}
HourInputs == {23, 24}
DayInputs == {"Monday"}
BooleanInputs == {"True", "False"}
Unset == "unset"

Inputs(t) ==
    CASE t \in {ChannelCategory, ChannelItemCategory} -> CategoryInputs
      [] t = SkipHour -> HourInputs
      [] t = SkipDay -> DayInputs
      [] t = ChannelItem -> BooleanInputs \cup {Unset}
      [] OTHER -> {Unset}

\* The value an INSERT stores for a constructor argument: the column default
\* when the attribute was never set.
InsertValue(t, arg) ==
    IF t = ChannelItem
    THEN (IF arg = Unset THEN ChannelItem_guidIsAPermaLink.default ELSE arg)
    ELSE IF t \in DetailTables \cup {Channel} THEN None ELSE arg

\* ------------------------------------------------------------------- state
VARIABLES
    db,      \* the storage: table name -> set of rows [id, fk, val]
    last,    \* the last unit of work and its outcome
    obj,     \* round trip: the scalar fields of a Channel object in memory
    stored,  \* round trip: the columns of its row
    loaded,  \* round trip: the object loaded back from the row
    phase    \* round trip: "new", "persisted", "reloaded"

vars == <<db, last, obj, stored, loaded, phase>>
rtvars == <<obj, stored, loaded, phase>>

Ids(d, t) == {r.id : r \in d[t]}

\* id = Column(Integer, primary_key=True): the next free key of the table
NextId(d, t) ==
    CHOOSE i \in 1..(Cardinality(d[t]) + 1) :
        i \notin Ids(d, t) /\ \A j \in 1..(i - 1) : j \in Ids(d, t)

RowCount(d) ==
    Cardinality(d[ChannelCategory]) + Cardinality(d[ChannelCloud])
    + Cardinality(d[ChannelImage]) + Cardinality(d[ChannelTextInput])
    + Cardinality(d[ChannelItemCategory]) + Cardinality(d[ChannelItem])
    + Cardinality(d[SkipHour]) + Cardinality(d[SkipDay])

\* (variant: a relation whose join does not compare the foreign key)
Collection_unjoined(d, rel, pid) == d[rel.child]

\* The lazily loaded content of parent.<relation>: the child rows whose
\* foreign key is the parent's primary key.
Collection(d, rel, pid) == {r \in d[rel.child] : r.fk = pid}

\* What the attribute shows: the list (or set) when uselist, else one member.
RelationValue(d, rel, pid) ==
    IF rel.uselist
    THEN Collection(d, rel, pid)
    ELSE IF Collection(d, rel, pid) = {} THEN {}
         ELSE {CHOOSE r \in Collection(d, rel, pid) :
                 \A x \in Collection(d, rel, pid) : r.id <= x.id}

\* The association proxy: the scalar attribute of every member.
ProxyValue(d, px, pid) == {r.val : r \in Collection(d, px.target_collection, pid)}

\* The keys <<table, id>> of the children of key k through the relations of
\* its class whose cascade does (withDelete) or does not contain "delete".
OrmChildren(d, k, withDelete) ==
    UNION {{<<rel.child, r.id>> : r \in Collection(d, rel, k[2])} :
             rel \in {x \in Relations :
                        x.parent = k[1] /\ (("delete" \in x.cascade) = withDelete)}}

\* session.delete(obj): the objects the "delete" cascade reaches.
RECURSIVE DeleteCascade(_, _)
DeleteCascade(d, S) ==
    LET N == S \cup UNION {OrmChildren(d, k, TRUE) : k \in S}
    IN  IF N = S THEN S ELSE DeleteCascade(d, N)

\* The children of deleted objects through relations without "delete": the
\* unit of work sets their foreign key to NULL.
Nullified(d, S) == (UNION {OrmChildren(d, k, FALSE) : k \in S}) \ S

\* The rows of d that reference a key of `gone` through a foreign key whose
\* ON DELETE is `action`.
Referencing(d, gone, action) ==
    UNION {{<<t, r.id>> : r \in {x \in d[t] :
                x.fk # NoId /\ <<ForeignKey(t).target, x.fk>> \in gone}} :
             t \in {u \in ChildTables : ForeignKey(u).ondelete = action}}

Without(d, S) == [t \in Tables |-> {r \in d[t] : <<t, r.id>> \notin S}]
SetNull(d, S) ==
    [t \in Tables |-> {IF <<t, r.id>> \in S THEN [r EXCEPT !.fk = NoId] ELSE r : r \in d[t]}]

\* The database's ON DELETE actions after the rows `gone` were deleted.
RECURSIVE OnDelete(_, _)
OnDelete(d, gone) ==
    LET casc == Referencing(d, gone, "CASCADE")
        d1 == SetNull(d, Referencing(d, gone, "SET NULL"))
    IN  IF casc = {} THEN d1 ELSE OnDelete(Without(d1, casc), casc)

\* A row whose foreign key references no row: the database rejects the
\* statement that would leave one.
Dangling(d) ==
    \E t \in ChildTables : \E r \in d[t] :
        r.fk # NoId /\ r.fk \notin Ids(d, ForeignKey(t).target)

\* session.delete of the keys S, flushed: the cascade of the mapper, the
\* NULLing of the other children, the DELETEs, the database's ON DELETE.
Flush_delete(d, S) ==
    LET del == DeleteCascade(d, S)
        d1 == Without(SetNull(d, Nullified(d, del)), del)
    IN  OnDelete(d1, del)

\* Storage-level ownership: the rows that reference k, transitively.
RECURSIVE Descendants(_, _)
Descendants(d, S) ==
    LET N == S \cup UNION {{<<t, r.id>> : r \in {x \in d[t] :
                  x.fk # NoId /\ <<ForeignKey(t).target, x.fk>> \in S}} : t \in ChildTables}
    IN  IF N = S THEN S ELSE Descendants(d, N)

\* INSERT: rejected (IntegrityError) when a unique column would repeat.
Insert(d, t, fk, v) ==
    LET new == [id |-> NextId(d, t), fk |-> fk, val |-> v]
    IN  IF \E r \in d[t] : \E c \in UniqueColumns(t) : r[c] = new[c]
        THEN [ok |-> FALSE, db |-> d]
        ELSE [ok |-> TRUE, db |-> [d EXCEPT ![t] = @ \cup {new}]]

\* What the proxy's creator makes of a value: target_class(value), one
\* positional argument, which the keyword-only constructor rejects (TypeError).
Creator(px, v) ==
    IF px.creator = "target_class" /\ Base.constructor = "keywords"
    THEN [ok |-> FALSE, val |-> v]
    ELSE [ok |-> TRUE, val |-> v]

\* What `last` keeps of a unit of work: the operation and whether it went
\* through (ok) or raised; a delete also keeps the deleted key and the keys
\* of the rows that referenced it, directly or not, before the delete.
Outcome(op, ok) == [op |-> op, ok |-> ok, key |-> <<Channel, NoId>>, owned |-> {}]


\* ----------------------------------------------------------------- actions
EmptyDb == [t \in Tables |-> {}]
NoFields == [f \in {} |-> None]

Init ==
    /\ db = EmptyDb
    /\ last = Outcome("write", TRUE)
    /\ obj = NoFields
    /\ stored = NoFields
    /\ loaded = NoFields
    /\ phase = "unused"

\* session.add(Channel()); commit
AddChannel ==
    /\ Cardinality(db[Channel]) < MaxChannels
    /\ LET res == Insert(db, Channel, NoId, None)
       IN  /\ db' = res.db
           /\ last' = Outcome("write", res.ok)
    /\ UNCHANGED rtvars

\* session.add(ChannelItem(channel_id=fk, ...)) or session.add(ChannelCloud(
\* channel_id=fk)) ...: the classes no relation with delete-orphan owns.  The
\* foreign key is NULL when channel_id is not given.
SessionAdd(t, fk, arg) ==
    /\ RowCount(db) < MaxRows
    /\ fk = NoId \/ fk \in Ids(db, ForeignKey(t).target)
    /\ LET res == Insert(db, t, fk, InsertValue(t, arg))
       IN  /\ db' = res.db
           /\ last' = Outcome("write", res.ok)
    /\ UNCHANGED rtvars

\* parent.<relation>.add(Child(<attr>=arg)) / .append(...); commit
CollectionAdd(rel, pid, arg) ==
    /\ RowCount(db) < MaxRows
    /\ pid \in Ids(db, rel.parent)
    /\ LET res == Insert(db, rel.child, pid, InsertValue(rel.child, arg))
       IN  /\ db' = res.db
           /\ last' = Outcome("write", res.ok)
    /\ UNCHANGED rtvars

\* parent.<relation>.add(child) for a persistent child of another parent (or
\* of none): the flush writes the new parent's key into its foreign key.
CollectionAttach(rel, pid, r) ==
    /\ pid \in Ids(db, rel.parent)
    /\ r \in db[rel.child]
    /\ r.fk # pid
    /\ db' = [db EXCEPT ![rel.child] = (@ \ {r}) \cup {[r EXCEPT !.fk = pid]}]
    /\ last' = Outcome("write", TRUE)
    /\ UNCHANGED rtvars

\* parent.<relation>.remove(child); commit: with delete-orphan the child is
\* deleted, otherwise its foreign key is set to NULL.
RemoveMember(d, rel, r) ==
    IF "delete-orphan" \in rel.cascade
    THEN Flush_delete(d, {<<rel.child, r.id>>})
    ELSE SetNull(d, {<<rel.child, r.id>>})

CollectionRemove(rel, pid, r) ==
    /\ pid \in Ids(db, rel.parent)
    /\ r \in Collection(db, rel, pid)
    /\ db' = RemoveMember(db, rel, r)
    /\ last' = Outcome("write", TRUE)
    /\ UNCHANGED rtvars

\* parent.<proxy>.add(v); commit.  _AssociationSet.add: nothing when v is
\* already in the proxy, otherwise the creator's child joins the collection.
ProxyAdd(px, pid, v) ==
    LET rel == px.target_collection
        made == Creator(px, v)
    IN  /\ pid \in Ids(db, rel.parent)
        /\ IF v \in ProxyValue(db, px, pid)
           THEN /\ db' = db
                /\ last' = Outcome("proxy_add", TRUE)
           ELSE IF ~made.ok
           THEN /\ db' = db
                /\ last' = Outcome("proxy_add", FALSE)
           ELSE LET res == Insert(db, rel.child, pid, made.val)
                IN  /\ RowCount(db) < MaxRows
                    /\ db' = res.db
                    /\ last' = Outcome("proxy_add", res.ok)
        /\ UNCHANGED rtvars

\* parent.<proxy>.remove(v); commit.  _AssociationSet.remove discards the
\* first member it meets that carries v (the set's iteration order decides
\* which) and raises KeyError when there is none.
ProxyRemove(px, pid, v) ==
    LET rel == px.target_collection
        carrying == {r \in Collection(db, rel, pid) : r.val = v}
    IN  /\ pid \in Ids(db, rel.parent)
        /\ IF carrying = {}
           THEN /\ db' = db
                /\ last' = Outcome("proxy_remove", FALSE)
           ELSE \E r \in carrying :
                /\ db' = RemoveMember(db, rel, r)
                /\ last' = Outcome("proxy_remove", TRUE)
        /\ UNCHANGED rtvars

\* session.delete(obj); commit.  Rejected (and rolled back) when a foreign
\* key without an ON DELETE action still references a deleted row.
SessionDelete(t, id) ==
    /\ id \in Ids(db, t)
    /\ LET after == Flush_delete(db, {<<t, id>>})
           ok == ~Dangling(after)
       IN  /\ db' = IF ok THEN after ELSE db
           /\ last' = [Outcome("delete", ok) EXCEPT
                         !.key = <<t, id>>,
                         !.owned = Descendants(db, {<<t, id>>}) \ {<<t, id>>}]
    /\ UNCHANGED rtvars

\* item.channel_id = fk; commit: items are attached to a channel through the
\* column alone, Channel has no relation to ChannelItem.
SetItemChannel(r, fk) ==
    /\ r \in db[ChannelItem]
    /\ fk = NoId \/ fk \in Ids(db, Channel)
    /\ fk # r.fk
    /\ db' = [db EXCEPT ![ChannelItem] = (@ \ {r}) \cup {[r EXCEPT !.fk = fk]}]
    /\ last' = Outcome("write", TRUE)
    /\ UNCHANGED rtvars

AllIds == 1..(MaxRows + MaxChannels)

Next ==
    \/ AddChannel
    \/ \E t \in {ChannelItem} \cup DetailTables : \E fk \in {NoId} \cup AllIds :
         \E arg \in Inputs(t) : SessionAdd(t, fk, arg)
    \/ \E rel \in Relations : \E pid \in AllIds : \E arg \in Inputs(rel.child) :
         CollectionAdd(rel, pid, arg)
    \/ \E rel \in Relations : \E pid \in AllIds : \E r \in db[rel.child] :
         CollectionAttach(rel, pid, r)
    \/ \E rel \in Relations : \E pid \in AllIds : \E r \in db[rel.child] :
         CollectionRemove(rel, pid, r)
    \/ \E px \in Proxies : \E pid \in AllIds :
         \E v \in Inputs(px.target_collection.child) : ProxyAdd(px, pid, v)
    \/ \E px \in Proxies : \E pid \in AllIds :
         \E v \in Inputs(px.target_collection.child) : ProxyRemove(px, pid, v)
    \/ \E t \in Tables : \E id \in AllIds : SessionDelete(t, id)
    \/ \E r \in db[ChannelItem] : \E fk \in {NoId} \cup AllIds : SetItemChannel(r, fk)

Spec == Init /\ [][Next]_vars


\* ------------------------------------------- the round trip of a Channel row
\* The scalar columns of Channel: Column(String) and Column(DateTime).
StringColumns ==
    {"title", "link", "description", "language", "copyright", "managingEditor",
     "webMaster", "generator", "docs", "ttl", "rating"}
DateTimeColumns == {"pubDate", "lastBuildDate"}
Fields == StringColumns \cup DateTimeColumns

\* A datetime is <<wall clock, tzinfo>>, tzinfo "naive" when it has none;
\* a missing datetime is <<>>.
NoDateTime == <<>>
StringInputs == {None, "x"}
DateTimeInputs == {NoDateTime, <<1, "naive">>, <<1, "GMT">>, <<2, "+0100">>}

\* Column(String): the text goes to a VARCHAR and comes back as it went.
String_bind(v) == v
String_result(s) == s

\* Column(DateTime): timezone is not asked for, so the column is a timestamp
\* without time zone: the wall clock fields are stored, the tzinfo is not, and
\* what comes back has none.
DateTime_bind(v) == IF v = NoDateTime THEN NoDateTime ELSE <<v[1]>>
\* (variant: a column that hands back timezone-aware values)
DateTime_result_tz(s) == IF s = NoDateTime THEN NoDateTime ELSE <<s[1], "GMT">>
DateTime_result(s) == IF s = NoDateTime THEN NoDateTime ELSE <<s[1], "naive">>

Bind(f, v) == IF f \in DateTimeColumns THEN DateTime_bind(v) ELSE String_bind(v)
Result(f, s) == IF f \in DateTimeColumns THEN DateTime_result(s) ELSE String_result(s)

\* Channel(title=..., ..., pubDate=..., lastBuildDate=...): any assignment
InitRT ==
    /\ db = EmptyDb
    /\ last = Outcome("write", TRUE)
    /\ \E sv \in [StringColumns -> StringInputs] :
         \E dv \in [DateTimeColumns -> DateTimeInputs] : obj = sv @@ dv
    /\ stored = NoFields
    /\ loaded = NoFields
    /\ phase = "new"

\* session.add(channel); commit: every attribute goes through the bind
\* processing of its column type into the row.
Persist ==
    /\ phase = "new"
    /\ stored' = [f \in Fields |-> Bind(f, obj[f])]
    /\ phase' = "persisted"
    /\ UNCHANGED <<db, last, obj, loaded>>

\* A fresh load of the row: every column goes through the result processing
\* of its type into the attribute.
Reload ==
    /\ phase = "persisted"
    /\ loaded' = [f \in Fields |-> Result(f, stored[f])]
    /\ phase' = "reloaded"
    /\ UNCHANGED <<db, last, obj, stored>>

NextRT == Persist \/ Reload

SpecRT == InitRT /\ [][NextRT]_vars

\* ================================================================== claims
IsChannelDelete == last.op = "delete" /\ last.ok /\ last.key[1] = Channel

\* C1: after "delete channel c" storage holds no ChannelCategory, SkipHour,
\* SkipDay or ChannelItem row whose channel_id is c and no ChannelItemCategory
\* row whose channel_item_id is an item that belonged to c; the rows of these
\* tables that belonged to c (or to its items) are gone from storage.
C1_DeleteChannelCascades ==
    IsChannelDelete =>
        /\ \A t \in {ChannelCategory, SkipHour, SkipDay, ChannelItem} :
             \A r \in db[t] : r.fk # last.key[2]
        /\ \A r \in db[ChannelItemCategory] : <<ChannelItem, r.fk>> \notin last.owned
        /\ \A k \in last.owned :
             k[1] \in {ChannelCategory, SkipHour, SkipDay, ChannelItem, ChannelItemCategory}
                => k[2] \notin Ids(db, k[1])

\* A channel that had an item with a category was deleted.
C1_Witness ==
    /\ IsChannelDelete
    /\ \E k \in last.owned : k[1] = ChannelItem
    /\ \E k \in last.owned : k[1] = ChannelItemCategory

\* C2 (as claimed): after "delete channel c" no ChannelCloud, ChannelImage or
\* ChannelTextInput row that was reachable from c.cloud, c.image or
\* c.textInput remains in storage.
C2_DetailRowsDeleted ==
    IsChannelDelete =>
        \A k \in last.owned : k[1] \in DetailTables => k[2] \notin Ids(db, k[1])

\* C3 (as claimed): every child row has a foreign key that references an
\* existing parent row, never a NULL or dangling one.
C3_ReferentialIntegrity ==
    \A t \in ChildTables : \A r \in db[t] :
        r.fk # NoId /\ r.fk \in Ids(db, ForeignKey(t).target)

\* C4 (as claimed): no two rows of a parent's _categories, _skipHours or
\* _skipDays collection carry the same value.
C4_NoDuplicates ==
    \A px \in Proxies : \A pid \in Ids(db, px.target_collection.parent) :
        \A r1, r2 \in Collection(db, px.target_collection, pid) :
            r1.val = r2.val => r1 = r2

\* C5 (as claimed): every stored item, also one created without setting
\* guidIsAPermaLink, has a boolean in guidIsAPermaLink.
C5_GuidIsAPermaLinkBoolean == \A r \in db[ChannelItem] : r.val \in BooleanInputs

\* The parents that hold the row <<t, id>> in a collection (for an item, which
\* no relation holds, the channels its channel_id names).
Parents(t, id) ==
    IF t = ChannelItem
    THEN {c \in Ids(db, Channel) : \E r \in db[t] : r.id = id /\ r.fk = c}
    ELSE UNION {{p \in Ids(db, rel.parent) :
                   \E r \in RelationValue(db, rel, p) : r.id = id} :
                rel \in {x \in Relations : x.child = t}}

AllKeys == UNION {{<<t, i>> : i \in Ids(db, t)} : t \in Tables}

Aware(v) == v # NoDateTime /\ v[2] # "naive"

C8_DetailNotUnique ==
    /\ last.op = "write" => last.ok
    /\ \A rel \in DetailRelations : \A c \in Ids(db, Channel) :
         Cardinality(RelationValue(db, rel, c))
            = Cardinality({r \in db[rel.child] : r.fk = c})

\* A channel whose cloud (or image, or textInput) holds two records.
C8_Witness ==
    \E rel \in DetailRelations : \E c \in Ids(db, Channel) :
        Cardinality(RelationValue(db, rel, c)) >= 2

\* C9 (as claimed): every stored SkipHour has an hour in 0..23.
C9_HourRange == \A r \in db[SkipHour] : r.val \in 0..23

\* C10 (as claimed): the proxy shows the values of the collection, adding a
\* value through the proxy creates a child row of that parent carrying it,
\* and removing a value removes every row that carries it.
C10_ProxyIsProjection ==
    [][\A px \in Proxies : \A pid \in AllIds :
         \A v \in Inputs(px.target_collection.child) :
           /\ (ProxyAdd(px, pid, v) /\ v \notin ProxyValue(db, px, pid))
                => \E r \in Collection(db', px.target_collection, pid) :
                     r.val = v /\ r.id \notin Ids(db, px.target_collection.child)
           /\ (ProxyRemove(px, pid, v) /\ v \in ProxyValue(db, px, pid))
                => v \notin ProxyValue(db', px, pid)]_vars

====
